---- MODULE Spec2Model ----
(***************************************************************************)
(* A model of jsr-core/match: the function match(pattern, target) and the  *)
(* pattern classes it dispatches on (src/unnamed/part_002, lines 1-303).   *)
(*                                                                         *)
(* JavaScript values are records tagged by the field t.  A string is the   *)
(* sequence of its characters.  A capture map is an object on the heap,    *)
(* named by its address.  Any other object carries its class (the          *)
(* prototype it was built with), an identity id, and its own enumerable    *)
(* properties in insertion order.  Property keys are strings; a numeric    *)
(* key is its canonical numeric string and a symbol key is one of          *)
(* SymbolKeys.                                                             *)
(***************************************************************************)
EXTENDS Integers, Sequences, FiniteSets, TLC

VARIABLES pattern, target, result, calls, pc, heap, history

vars == <<pattern, target, result, calls, pc, heap, history>>

(***************************************************************************)
(* Bounds of the model.                                                    *)
(***************************************************************************)
MaxPatLen == 2

MaxTargetLen == 3

MaxStrLen == 4

MaxParts == 4

MaxCalls == 3

MaxStrings == 3

MaxPlaceholders == 2

MaxDepth == 4

(***************************************************************************)
(* Values.                                                                 *)
(***************************************************************************)
Undefined == [t |-> "undefined"]

Null == [t |-> "null"]

Bool(b) == [t |-> "boolean", b |-> b]

Num(n) == [t |-> "number", n |-> n]

NaN == [t |-> "number", nan |-> TRUE]

Str(s) == [t |-> "string", s |-> s]

Sym(i) == [t |-> "symbol", id |-> i]

Fn(name) == [t |-> "function", id |-> name]

Arr(e) == [t |-> "array", e |-> e]

Obj(cls, id, own) == [t |-> "object", cls |-> cls, id |-> id, own |-> own]

Entry(k, v) == [k |-> k, v |-> v]

(***************************************************************************)
(* The pattern classes.                                                    *)
(***************************************************************************)
AnonymousPlaceholder(test) == [t |-> "AnonymousPlaceholder", test |-> test]

RegularPlaceholder(name, test) ==
  [t |-> "RegularPlaceholder", name |-> name, test |-> test]

TemplateStringPlaceholder(greedy, strings, placeholders) ==
  [t |-> "TemplateStringPlaceholder", greedy |-> greedy, strings |-> strings,
   placeholders |-> placeholders]

(***************************************************************************)
(* Type guards a caller passes as test.  "none" is the absent test.        *)
(***************************************************************************)
Test(test, v) ==
  CASE test = "isString" -> v.t = "string"
    [] test = "isNumber" -> v.t = "number"
    [] test = "ensureNumber" -> v.t = "number"
    [] test = "isA" -> v = Str(<<"a">>)
    [] OTHER -> FALSE

\* The test throws instead of returning: "throws" for every value,
\* "ensureNumber" for a value that is not a number.
Raises(test, v) ==
  \/ test = "throws"
  \/ test = "ensureNumber" /\ v.t # "number"

(***************************************************************************)
(* Property access on a target.                                            *)
(***************************************************************************)
SymbolKeys == {"@s"}

IndexKeys == <<"0", "1">>

InheritedKeys == {"toString"}

SeqRange(s) == {s[i] : i \in 1..Len(s)}

OwnKeys(o) == {o.own[i].k : i \in 1..Len(o.own)}

OwnValue(o, key) == (CHOOSE i \in 1..Len(o.own) : o.own[i].k = key)

\* key in target
KeyIn(key, o) == key \in OwnKeys(o) \/ key \in InheritedKeys

\* target[key]
Get(o, key) ==
  IF o.t = "object" /\ key \in OwnKeys(o) THEN o.own[OwnValue(o, key)].v
  ELSE IF o.t = "object" /\ key \in InheritedKeys THEN Fn(key)
  ELSE Undefined

\* target[i] for an index i (counted from 1 here): an element of an array,
\* a character of a string, undefined past the end and on other values.
Index(v, i) ==
  IF v.t = "array" /\ i \in 1..Len(v.e) THEN v.e[i]
  ELSE IF v.t = "string" /\ i \in 1..Len(v.s) THEN Str(<<v.s[i]>>)
  ELSE Undefined

\* Object.entries(pattern): integer-like keys in ascending order, then the
\* other string keys in insertion order; symbol keys are not listed.
IsIndexKey(k) == k \in SeqRange(IndexKeys)

IsIndexEntry(e) == IsIndexKey(e.k)

IsStringEntry(e) == ~IsIndexKey(e.k) /\ e.k \notin SymbolKeys

RECURSIVE IndexEntries(_, _)
IndexEntries(o, i) ==
  IF i > Len(IndexKeys) THEN <<>>
  ELSE (IF IndexKeys[i] \in OwnKeys(o)
          THEN <<o.own[OwnValue(o, IndexKeys[i])]>> ELSE <<>>)
       \o IndexEntries(o, i + 1)

Entries(o) == IndexEntries(o, 1) \o SelectSeq(o.own, IsStringEntry)

(***************************************************************************)
(* Capture maps.                                                           *)
(***************************************************************************)
EmptyMap == [k \in {} |-> Undefined]

Captures(m) == [t |-> "captures", m |-> m]

\* Keys already captured are kept.
Assign_keepFirst(a, b) ==
  [k \in DOMAIN a \cup DOMAIN b |-> IF k \in DOMAIN a THEN a[k] ELSE b[k]]

\* Object.assign(a, b) and { ...a, ...b }
Assign(a, b) ==
  [k \in DOMAIN a \cup DOMAIN b |-> IF k \in DOMAIN b THEN b[k] ELSE a[k]]

\* The exception a test has thrown, on its way out of match.
Thrown == [t |-> "throw"]

\* A reference to the capture map at address a of the heap.
Ref(a) == [t |-> "ref", addr |-> a]

\* The address of the first map is handed out again.
Alloc_reused(h, m) ==
  IF h = <<>> THEN [addr |-> 1, heap |-> <<m>>]
  ELSE [addr |-> 1, heap |-> [h EXCEPT ![1] = m]]

\* An object literal: a new object at an address not used before.
Alloc(h, m) == [addr |-> Len(h) + 1, heap |-> Append(h, m)]

\* Object.assign(result, subResult): the object at a is written in place.
ObjectAssign(h, a, b) == [h EXCEPT ![a] = Assign(h[a], h[b])]

Return(ret, cs, h) == [ret |-> ret, calls |-> cs, heap |-> h]

\* return {} and return { [pattern.name]: target }
ReturnNew(m, cs, h) ==
  LET new == Alloc(h, m) IN Return(Ref(new.addr), cs, new.heap)

\* if (subResult): a capture map is an object, hence truthy
Truthy(ret) == ret.t = "ref"

\* An exception is caught and taken for undefined.
Throws_caught(ret) == FALSE

\* No try/catch: an exception thrown inside a nested call leaves the loop
\* and the calling match.
Throws(ret) == ret = Thrown

\* What the caller of match holds: undefined, or the contents of the
\* returned capture map.
Deref(r) == IF r.ret.t = "ref" THEN Captures(r.heap[r.ret.addr]) ELSE r.ret

(***************************************************************************)
(* pattern === target                                                      *)
(***************************************************************************)
\* pattern == target: null and undefined equal each other.
StrictEquals_loose(a, b) ==
  (a # NaN /\ a = b) \/ ({a, b} = {Null, Undefined})

StrictEquals(a, b) == a # NaN /\ a = b

\* Only direct instances of Object accepted.
IsRecord_plainOnly(v) == v.t = "object" /\ v.cls = "Object"

\* typeof target === "object" without the array test.
IsRecord_typeofObject(v) == v.t \in {"object", "array"}

\* is.Record(target) of unknownutil 3.18: non-null, not an array, typeof
\* "object"
IsRecord(v) == v.t = "object"

\* pattern.length === target.length
ArrayGuard_exactLength(p, v) == v.t = "array" /\ Len(p.e) = Len(v.e)

\* The length comparison left out.
ArrayGuard_noLength(p, v) == v.t = "array"

\* is.Array(target) && pattern.length <= target.length
ArrayGuard(p, v) == v.t = "array" /\ Len(p.e) <= Len(v.e)

IsPlainObject_anyObject(p) == p.t = "object"

\* pattern instanceof Object && getPrototypeOf(pattern) === Object.prototype
IsPlainObject(p) == p.t = "object" /\ p.cls = "Object"

(***************************************************************************)
(* The regular expression of a template: the escaped literal fragments     *)
(* joined by one capture group per gap, anchored by ^ and $.               *)
(***************************************************************************)
RegExpSpecial ==
  {".", "*", "+", "?", "^", "$", "{", "}", "(", ")", "|", "[", "]", "\\"}

LineTerminators == {"\n", "\r"}

\* The character copied as it is.
escChar_raw(c) == <<c>>

\* '\\$&': a special character is replaced by a backslash and itself.
escChar(c) == IF c \in RegExpSpecial THEN <<"\\", c>> ELSE <<c>>

\* esc(s): s.replace(/[.*+?^${}()|[\]\\]/g, '\\$&')
RECURSIVE esc(_)
esc(s) == IF s = <<>> THEN <<>> ELSE escChar(Head(s)) \o esc(Tail(s))

\* The atoms of a regular expression source without groups: a backslash
\* makes the next character literal, an unescaped special character is
\* control syntax.
RECURSIVE Atoms(_)
Atoms(src) ==
  IF src = <<>> THEN <<>>
  ELSE IF Head(src) = "\\" /\ Len(src) >= 2
    THEN <<[lit |-> TRUE, c |-> src[2]]>> \o Atoms(SubSeq(src, 3, Len(src)))
    ELSE <<[lit |-> Head(src) \notin RegExpSpecial, c |-> Head(src)]>>
         \o Atoms(Tail(src))

\* One atom against one character; of the control syntax only the dot is
\* interpreted (any character but a line terminator).
AtomMatches(a, ch) ==
  IF a.lit THEN ch = a.c ELSE a.c = "." /\ ch \notin LineTerminators

\* The source fragment src matches s at position pos.
FragmentAt(src, s, pos) ==
  LET as == Atoms(src) IN
    /\ pos + Len(as) - 1 <= Len(s)
    /\ \A j \in 1..Len(as) : AtomMatches(as[j], s[pos + j - 1])

\* The longest run of characters from pos that (.*) or (.*?) can take.
DotRun(s, pos) ==
  CHOOSE n \in 0..(Len(s) - pos + 1) :
    /\ \A j \in 0..(n - 1) : s[pos + j] \notin LineTerminators
    /\ (pos + n <= Len(s) => s[pos + n] \in LineTerminators)

Min(S) == CHOOSE x \in S : \A y \in S : x <= y

Max(S) == CHOOSE x \in S : \A y \in S : x >= y

NoGroups == [ok |-> FALSE, groups |-> <<>>]

sep_lazy(greedy, fits) == Min(fits)

\* const sep = pattern.greedy ? '(.*)' : '(.*?)': of the gap lengths for
\* which the rest matches, the group takes the longest or the shortest.
sep(greedy, fits) == IF greedy THEN Max(fits) ELSE Min(fits)

\* Backtracking search after fragment i has been matched up to pos: the
\* gap length is tried shortest first for (.*?) and longest first for
\* (.*), and the first length for which the rest matches is taken.
RECURSIVE RegExpFrom(_, _, _, _, _)
RegExpFrom(srcs, greedy, s, i, pos) ==
  IF i = Len(srcs)
    THEN (IF pos = Len(s) + 1 THEN [ok |-> TRUE, groups |-> <<>>] ELSE NoGroups)
    ELSE LET next == Atoms(srcs[i + 1])
             fits == {n \in 0..DotRun(s, pos) :
                        /\ FragmentAt(srcs[i + 1], s, pos + n)
                        /\ RegExpFrom(srcs, greedy, s, i + 1,
                                      pos + n + Len(next)).ok}
         IN IF fits = {} THEN NoGroups
            ELSE LET n == sep(greedy, fits)
                     rest == RegExpFrom(srcs, greedy, s, i + 1,
                                        pos + n + Len(next))
                 IN [ok |-> TRUE,
                     groups |-> <<SubSeq(s, pos, pos + n - 1)>> \o rest.groups]

\* target.match(new RegExp(`^${pattern.strings.map(esc).join(sep)}$`)):
\* the capture groups m[1..], or no match (m is null).
RegExpMatch(strings, greedy, s) ==
  LET srcs == [i \in 1..Len(strings) |-> esc(strings[i])] IN
    IF Len(srcs) = 0
      THEN (IF s = <<>> THEN [ok |-> TRUE, groups |-> <<>>] ELSE NoGroups)
    ELSE IF FragmentAt(srcs[1], s, 1)
      THEN RegExpFrom(srcs, greedy, s, 1, 1 + Len(Atoms(srcs[1])))
    ELSE NoGroups

\* m[i]: a capture group is a string, an index past the groups is undefined
Group(m, i) == IF i \in 1..Len(m.groups) THEN Str(m.groups[i]) ELSE Undefined

(***************************************************************************)
(* match(pattern, target): the value returned and the type guards invoked, *)
(* in order of invocation.                                                 *)
(***************************************************************************)
RECURSIVE match(_, _, _)
RECURSIVE matchTemplateLoop(_, _, _, _, _, _)
RECURSIVE matchArrayLoop(_, _, _, _, _, _)
RECURSIVE matchRecordLoop(_, _, _, _, _, _)

\* The condition inverted: the capture is returned when the test rejects.
matchPlaceholder_inverted(p, v, captured, h) ==
  IF p.test = "none" THEN ReturnNew(captured, <<>>, h)
  ELSE IF Raises(p.test, v)
    THEN Return(Thrown, <<[test |-> p.test, arg |-> v]>>, h)
  ELSE IF ~Test(p.test, v)
    THEN ReturnNew(captured, <<[test |-> p.test, arg |-> v]>>, h)
    ELSE Return(Undefined, <<[test |-> p.test, arg |-> v]>>, h)

\* The result of the test ignored.
matchPlaceholder_untested(p, v, captured, h) ==
  IF p.test = "none" THEN ReturnNew(captured, <<>>, h)
  ELSE IF Raises(p.test, v)
    THEN Return(Thrown, <<[test |-> p.test, arg |-> v]>>, h)
  ELSE ReturnNew(captured, <<[test |-> p.test, arg |-> v]>>, h)

\* if (!pattern.test || pattern.test(target))
matchPlaceholder(p, v, captured, h) ==
  IF p.test = "none" THEN ReturnNew(captured, <<>>, h)
  ELSE IF Raises(p.test, v)
    THEN Return(Thrown, <<[test |-> p.test, arg |-> v]>>, h)
  ELSE IF Test(p.test, v)
    THEN ReturnNew(captured, <<[test |-> p.test, arg |-> v]>>, h)
    ELSE Return(Undefined, <<[test |-> p.test, arg |-> v]>>, h)

\* The loop entered although the regular expression did not match.
LoopCondition_unmatched(p, m, i) == i <= Len(p.placeholders)

\* m && i < pattern.placeholders.length
LoopCondition(p, m, i) == m.ok /\ i <= Len(p.placeholders)

\* for (let i = 0; m && i < pattern.placeholders.length; i++); res is the
\* local variable result, undefined until the first sub-match is merged;
\* result = { ...(result ?? {}), ...subResult } is a new object each time
matchTemplateLoop(p, m, i, res, cs, h) ==
  IF ~LoopCondition(p, m, i) THEN Return(res, cs, h)
  ELSE LET sub == match(p.placeholders[i], Group(m, i), h) IN
    IF Throws(sub.ret) THEN Return(Thrown, cs \o sub.calls, sub.heap)
    ELSE IF Truthy(sub.ret)
      THEN LET new == Alloc(sub.heap,
                        Assign(IF res = Undefined THEN EmptyMap
                               ELSE sub.heap[res.addr],
                               sub.heap[sub.ret.addr]))
           IN matchTemplateLoop(p, m, i + 1, Ref(new.addr), cs \o sub.calls,
                                new.heap)
      ELSE Return(Undefined, cs \o sub.calls, sub.heap)

\* String(target) of a one-element array holding a string and of a number;
\* other values are left as the text "?".
Coerced(v) ==
  IF v.t = "string" THEN v.s
  ELSE IF v.t = "array" /\ Len(v.e) = 1 /\ v.e[1].t = "string" THEN v.e[1].s
  ELSE IF v = Num(1) THEN <<"1">>
  ELSE <<"?">>

\* The target coerced to a string instead of rejected.
matchTemplate_coerced(p, v, h) ==
  matchTemplateLoop(p, RegExpMatch(p.strings, p.greedy, Coerced(v)), 1,
                    Undefined, <<>>, h)

\* When a placeholder rejects its gap the other quantifier is tried.
matchTemplate_backtracking(p, v, h) ==
  IF v.t # "string" THEN Return(Undefined, <<>>, h)
  ELSE LET first == matchTemplateLoop(p, RegExpMatch(p.strings, p.greedy, v.s),
                                      1, Undefined, <<>>, h)
       IN IF first.ret # Undefined THEN first
          ELSE matchTemplateLoop(p, RegExpMatch(p.strings, ~p.greedy, v.s), 1,
                                 Undefined, first.calls, first.heap)

\* if (typeof target !== 'string') return undefined; ...
matchTemplate(p, v, h) ==
  IF v.t # "string" THEN Return(Undefined, <<>>, h)
  ELSE matchTemplateLoop(p, RegExpMatch(p.strings, p.greedy, v.s), 1,
                         Undefined, <<>>, h)

\* for (let i = 0; i < pattern.length; i++); res is the address of result
matchArrayLoop(p, v, i, res, cs, h) ==
  IF i > Len(p.e) THEN Return(Ref(res), cs, h)
  ELSE LET sub == match(p.e[i], Index(v, i), h) IN
    IF Throws(sub.ret) THEN Return(Thrown, cs \o sub.calls, sub.heap)
    ELSE IF Truthy(sub.ret)
      THEN matchArrayLoop(p, v, i + 1, res, cs \o sub.calls,
                          ObjectAssign(sub.heap, res, sub.ret.addr))
      ELSE Return(Undefined, cs \o sub.calls, sub.heap)

\* const result = {}; for (...) {...}; return result
matchArray(p, v, h) ==
  LET new == Alloc(h, EmptyMap)
  IN matchArrayLoop(p, v, 1, new.addr, <<>>, new.heap)

\* for (const [key, value] of Object.entries(pattern)); res is the address
\* of result
matchRecordLoop(es, v, i, res, cs, h) ==
  IF i > Len(es) THEN Return(Ref(res), cs, h)
  ELSE IF ~KeyIn(es[i].k, v) THEN Return(Undefined, cs, h)
  ELSE LET sub == match(es[i].v, Get(v, es[i].k), h) IN
    IF Throws(sub.ret) THEN Return(Thrown, cs \o sub.calls, sub.heap)
    ELSE IF Truthy(sub.ret)
      THEN matchRecordLoop(es, v, i + 1, res, cs \o sub.calls,
                           ObjectAssign(sub.heap, res, sub.ret.addr))
      ELSE Return(Undefined, cs \o sub.calls, sub.heap)

\* A target with a key the pattern does not name is rejected.
matchRecord_exactKeys(p, v, h) ==
  IF OwnKeys(v) \subseteq OwnKeys(p)
    THEN LET new == Alloc(h, EmptyMap)
         IN matchRecordLoop(Entries(p), v, 1, new.addr, <<>>, new.heap)
    ELSE Return(Undefined, <<>>, h)

\* const result = {}; for (...) {...}; return result
matchRecord(p, v, h) ==
  LET new == Alloc(h, EmptyMap)
  IN matchRecordLoop(Entries(p), v, 1, new.addr, <<>>, new.heap)

\* h is the heap when the call starts; the heap when it ends is returned
\* with the value and the tests invoked.
match(p, v, h) ==
  IF p.t = "AnonymousPlaceholder" THEN matchPlaceholder(p, v, EmptyMap, h)
  ELSE IF p.t = "RegularPlaceholder"
    THEN matchPlaceholder(p, v, [k \in {p.name} |-> v], h)
  ELSE IF p.t = "TemplateStringPlaceholder"
    THEN matchTemplate(p, v, h)
  ELSE IF p.t = "array"
    THEN IF ~ArrayGuard(p, v)
           THEN Return(Undefined, <<>>, h)
           ELSE matchArray(p, v, h)
  ELSE IF IsPlainObject(p) /\ IsRecord(v)
    THEN matchRecord(p, v, h)
  ELSE IF StrictEquals(p, v) THEN ReturnNew(EmptyMap, <<>>, h)
  ELSE Return(Undefined, <<>>, h)

(***************************************************************************)
(* The inputs a caller passes to match.                                    *)
(***************************************************************************)
Tests == {"none", "isString", "isNumber"}

\* Placeholder names: two strings, the number 1 and a symbol.
Names == {"x", "y", "1", "@s"}

Placeholders ==
  {AnonymousPlaceholder(t) : t \in Tests}
    \cup {RegularPlaceholder(n, t) : n \in Names, t \in Tests}

Scalars ==
  {Undefined, Null, Bool(TRUE), Bool(FALSE), Num(1), Num(2), NaN,
   Str(<<>>), Str(<<"a">>), Sym(1), Sym(2)}

\* Instances of a user-defined class: two instances with equal fields and
\* one with other fields.
Instances ==
  {Obj("User", 1, <<Entry("a", Num(1))>>),
   Obj("User", 2, <<Entry("a", Num(1))>>),
   Obj("User", 3, <<Entry("a", Str(<<"a">>)), Entry("b", Undefined)>>),
   Obj("User", 4, <<Entry("a", RegularPlaceholder("x", "none"))>>)}

ElemPatterns ==
  {RegularPlaceholder("x", "none"), RegularPlaceholder("x", "isNumber"),
   RegularPlaceholder("y", "none"), AnonymousPlaceholder("isString"),
   Num(1), Undefined}

ElemValues == {Num(1), Num(2), Str(<<"a">>), Undefined}

SeqsUpTo(S, n) == UNION {[1..k -> S] : k \in 0..n}

\* Field lists over the keys a and b, in either declaration order.
FieldLists(S) ==
  {<<>>}
    \cup {<<Entry(k, v)>> : k \in {"a", "b"}, v \in S}
    \cup {<<Entry("a", v), Entry("b", w)>> : v \in S, w \in S}
    \cup {<<Entry("b", w), Entry("a", v)>> : v \in S, w \in S}

NestedPatterns ==
  {Arr(<<p, Arr(<<q>>)>>) : p \in Placeholders, q \in {RegularPlaceholder("x", "none")}}
    \cup {Arr(<<Arr(<<q>>), p>>) : p \in Placeholders, q \in {RegularPlaceholder("x", "none")}}
    \cup {Obj("Object", 0, <<Entry("a", Arr(<<q>>)), Entry("b", p)>>) :
            p \in ElemPatterns, q \in ElemPatterns}
    \cup {Obj("Object", 0, <<Entry(k, p)>>) :
            k \in {"toString", "@s", "1"}, p \in ElemPatterns}

\* Two fields declared one after the other under keys of every kind: text,
\* integer-like and symbol.
KeyPairs ==
  {<<k1, k2>> \in {"b", "0", "1", "@s"} \X {"b", "0", "1", "@s"} : k1 # k2}

OrderPatterns ==
  {Obj("Object", 0, <<Entry(ks[1], RegularPlaceholder("x", "none")),
                      Entry(ks[2], RegularPlaceholder("x", "none"))>>) :
     ks \in KeyPairs}
    \cup {Obj("Object", 0, <<Entry(ks[1], RegularPlaceholder("x", "isString")),
                              Entry(ks[2], RegularPlaceholder("y", "isNumber"))>>) :
            ks \in KeyPairs}

OrderValues ==
  {Obj("Object", 0, <<Entry(ks[1], Num(1)), Entry(ks[2], Num(2))>>) :
     ks \in KeyPairs}

TemplatePatterns ==
  {TemplateStringPlaceholder(g, <<<<>>, <<"-">>, <<>>>>, <<p, q>>) :
     g \in BOOLEAN,
     p \in {RegularPlaceholder("x", "none"), RegularPlaceholder("y", "none")},
     q \in {RegularPlaceholder("x", "none"), AnonymousPlaceholder("none")}}
    \cup {TemplateStringPlaceholder(FALSE, <<<<"a">>, <<>>>>, <<p>>) :
            p \in Placeholders}

Patterns ==
  Scalars \cup Placeholders \cup Instances
    \cup {Arr(e) : e \in SeqsUpTo(ElemPatterns, MaxPatLen)}
    \cup {Obj("Object", 0, f) : f \in FieldLists(ElemPatterns)}
    \cup NestedPatterns \cup TemplatePatterns \cup OrderPatterns

Values ==
  Scalars \cup Instances
    \cup {Str(<<"a", "-", "a">>), Str(<<"a", "-", "-", "a">>), Str(<<"-">>)}
    \cup {Arr(e) : e \in SeqsUpTo(ElemValues, MaxTargetLen)}
    \cup {Arr(<<v, Arr(<<w>>)>>) : v \in ElemValues, w \in ElemValues}
    \cup {Arr(<<Arr(<<w>>), v>>) : v \in ElemValues, w \in ElemValues}
    \cup {Obj("Object", 0, f) : f \in FieldLists(ElemValues)}
    \cup {Obj("Object", 0, <<Entry("a", Arr(<<v>>)), Entry("b", w)>>) :
            v \in ElemValues, w \in ElemValues}
    \cup {Obj("Object", 0, <<Entry(k, v)>>) : k \in {"@s", "1"}, v \in ElemValues}
    \cup OrderValues

(***************************************************************************)
(* A caller holds a pattern and a target and calls match once.             *)
(***************************************************************************)
Init ==
  /\ pattern \in Patterns
  /\ target \in Values
  /\ result = Undefined
  /\ calls = <<>>
  /\ pc = "call"
  /\ heap = <<>>
  /\ history = <<>>

\* const result = match(pattern, target): result is assigned when match
\* returns and left alone when it throws.  history keeps, for each call
\* made so far, its arguments, what the caller got and the address of the
\* returned map (0 when there is none).
Match ==
  /\ pc = "call"
  /\ LET r == match(pattern, target, heap)
         got == IF r.ret = Thrown THEN result ELSE Deref(r)
     IN /\ result' = got
        /\ calls' = r.calls
        /\ heap' = r.heap
        /\ pc' = IF r.ret = Thrown THEN "thrown" ELSE "returned"
        /\ history' = Append(history,
             [pattern |-> pattern, target |-> target, result |-> got,
              thrown |-> r.ret = Thrown,
              addr |-> IF r.ret.t = "ref" THEN r.ret.addr ELSE 0])
  /\ UNCHANGED <<pattern, target>>

Next == Match

Spec == Init /\ [][Next]_vars

(***************************************************************************)
(* A caller holds a template and a string and calls match once.            *)
(***************************************************************************)
Chars == {"a", "-", "\n"}

Fragments == {<<>>, <<"a">>, <<"-">>}

Strings == {Str(s) : s \in SeqsUpTo(Chars, MaxStrLen)}

Templates ==
  {TemplateStringPlaceholder(g, <<l0>>, <<>>) : g \in BOOLEAN, l0 \in Fragments}
    \cup {TemplateStringPlaceholder(g, <<l0, l1>>, <<RegularPlaceholder("x", t)>>) :
            g \in BOOLEAN, l0 \in Fragments, l1 \in Fragments,
            t \in {"none", "isString"}}
    \cup {TemplateStringPlaceholder(g, <<l0, l1, l2>>,
              <<RegularPlaceholder("x", "none"), RegularPlaceholder("y", "none")>>) :
            g \in BOOLEAN, l0 \in Fragments, l1 \in Fragments, l2 \in Fragments}
    \cup {TemplateStringPlaceholder(g, <<<<>>, <<"-">>, <<"-">>, <<>>>>,
              <<RegularPlaceholder("x", "none"), RegularPlaceholder("y", "none"),
                RegularPlaceholder("1", "none")>>) : g \in BOOLEAN}
    \cup {TemplateStringPlaceholder(g, <<<<>>, <<"-">>, <<>>>>,
              <<RegularPlaceholder("x", t), RegularPlaceholder("y", u)>>) :
            g \in BOOLEAN, t \in {"none", "isA"}, u \in {"none", "isA"}}

IS == <<" ", "i", "s", " ">>

YearsOld == <<" ", "y", "e", "a", "r", "s", " ", "o", "l", "d">>

AgeTemplates ==
  {TemplateStringPlaceholder(g, <<<<>>, IS, YearsOld>>,
      <<RegularPlaceholder("name", "none"), RegularPlaceholder("age", "none")>>) :
    g \in BOOLEAN}

Parts == {<<"a">>, IS, <<" ", "i", "s">>, <<"\n">>}

RECURSIVE Join(_)
Join(parts) == IF parts = <<>> THEN <<>> ELSE Head(parts) \o Join(Tail(parts))

Sentences ==
  {Str(Join(ps) \o tail) : ps \in SeqsUpTo(Parts, MaxParts), tail \in {<<>>, YearsOld}}

\* Templates with a literal fragment that holds the special character c,
\* and the strings over c and a letter.
SpecialFragments(c) == {<<c>>, <<"a", c>>}

SpecialTemplates(c) ==
  {TemplateStringPlaceholder(g, <<f, <<>>>>, <<RegularPlaceholder("x", "none")>>) :
     g \in BOOLEAN, f \in SpecialFragments(c)}
    \cup {TemplateStringPlaceholder(g, <<<<>>, f>>, <<RegularPlaceholder("x", "none")>>) :
            g \in BOOLEAN, f \in SpecialFragments(c)}
    \cup {TemplateStringPlaceholder(g, <<<<>>, f, <<>>>>,
              <<RegularPlaceholder("x", "none"), RegularPlaceholder("y", "none")>>) :
            g \in BOOLEAN, f \in SpecialFragments(c)}

SpecialStrings(c) == {Str(s) : s \in SeqsUpTo({"a", c}, MaxStrLen)}

TplInit ==
  /\ \/ pattern \in Templates /\ target \in Strings
     \/ pattern \in AgeTemplates /\ target \in Sentences
     \/ \E c \in RegExpSpecial :
          pattern \in SpecialTemplates(c) /\ target \in SpecialStrings(c)
  /\ result = Undefined
  /\ calls = <<>>
  /\ pc = "call"
  /\ heap = <<>>
  /\ history = <<>>

TplSpec == TplInit /\ [][Next]_vars

(***************************************************************************)
(* A caller passes placeholders whose test may throw, alone and nested in  *)
(* a Sequence, a record and a template.                                    *)
(***************************************************************************)
FaultPlaceholders ==
  {RegularPlaceholder("x", t) : t \in {"throws", "ensureNumber", "isString", "none"}}
    \cup {AnonymousPlaceholder("throws")}

FaultPatterns ==
  FaultPlaceholders
    \cup {Arr(<<p, q>>) : p \in FaultPlaceholders, q \in FaultPlaceholders}
    \cup {Obj("Object", 0, <<Entry("a", p), Entry("b", q)>>) :
            p \in FaultPlaceholders, q \in FaultPlaceholders}
    \cup {TemplateStringPlaceholder(FALSE, <<<<>>, <<"-">>, <<>>>>, <<p, q>>) :
            p \in FaultPlaceholders, q \in FaultPlaceholders}
    \cup {Arr(<<Obj("Object", 0,
              <<Entry("a", TemplateStringPlaceholder(FALSE, <<<<"a">>, <<>>>>, <<p>>))>>)>>) :
            p \in FaultPlaceholders}

FaultValues ==
  {Num(1), Str(<<"a">>), Str(<<"a", "-", "a">>),
   Arr(<<Num(1), Str(<<"a">>)>>), Arr(<<Str(<<"a">>), Num(1)>>),
   Obj("Object", 0, <<Entry("a", Num(1)), Entry("b", Str(<<"a">>))>>),
   Obj("Object", 0, <<Entry("a", Str(<<"a">>))>>),
   Arr(<<Obj("Object", 0, <<Entry("a", Str(<<"a", "a">>))>>)>>)}

FaultInit ==
  /\ pattern \in FaultPatterns
  /\ target \in FaultValues
  /\ result = Undefined
  /\ calls = <<>>
  /\ pc = "call"
  /\ heap = <<>>
  /\ history = <<>>

FaultSpec == FaultInit /\ [][Next]_vars

(***************************************************************************)
(* A caller calls match several times, with the same or with other         *)
(* arguments, and keeps every map it was given.                            *)
(***************************************************************************)
PurePatterns ==
  {RegularPlaceholder("x", "none"),
   RegularPlaceholder("x", "throws"),
   Arr(<<RegularPlaceholder("x", "none"), RegularPlaceholder("y", "isNumber")>>),
   Obj("Object", 0, <<Entry("a", RegularPlaceholder("x", "none"))>>),
   TemplateStringPlaceholder(FALSE, <<<<>>, <<"-">>, <<>>>>,
     <<RegularPlaceholder("x", "none"), RegularPlaceholder("y", "none")>>)}

PureValues ==
  {Arr(<<Num(1), Num(2)>>),
   Obj("Object", 0, <<Entry("a", Num(1))>>),
   Str(<<"a", "-", "a">>)}

PureInit ==
  /\ pattern \in PurePatterns
  /\ target \in PureValues
  /\ result = Undefined
  /\ calls = <<>>
  /\ pc = "call"
  /\ heap = <<>>
  /\ history = <<>>

\* The next call of match, after the previous one has returned or thrown.
Call ==
  /\ pc # "call"
  /\ Len(history) < MaxCalls
  /\ pattern' \in PurePatterns
  /\ target' \in PureValues
  /\ result' = Undefined
  /\ calls' = <<>>
  /\ pc' = "call"
  /\ UNCHANGED <<heap, history>>

PureNext == Match \/ Call

PureSpec == PureInit /\ [][PureNext]_vars

(***************************************************************************)
(* Construction of patterns: the factory _ (the function _placeholder),    *)
(* the factory _.greedy and the constructor of TemplateStringPlaceholder.  *)
(* A key argument is given by the property name it stands for, a test      *)
(* argument is undefined or a function, a strings argument is an array of  *)
(* strings.                                                                *)
(***************************************************************************)
KeyArg(name) == [t |-> "key", name |-> name]

IsPlaceholderInstance(v) ==
  v.t \in {"AnonymousPlaceholder", "RegularPlaceholder", "TemplateStringPlaceholder"}

\* is.ArrayOf(is.InstanceOf(Placeholder))
isAbstractPlaceholders(vs) == \A i \in 1..Len(vs) : IsPlaceholderInstance(vs[i])

\* is.UnionOf([is.String, is.Number, is.Symbol])
isKey(v) == v.t = "key"

\* is.UnionOf([is.Function, is.Undefined])
maybeTypeGuard(v) == v.t \in {"function", "undefined"}

\* is.ArrayOf(is.String)
isTemplateStringsArray(v) ==
  v.t = "array" /\ \A i \in 1..Len(v.e) : v.e[i].t = "string"

\* The test field for a test argument.
TestOf(v) == IF v.t = "function" THEN v.id ELSE "none"

\* The strings field for a strings argument.
StringsOf(v) == [i \in 1..Len(v.e) |-> v.e[i].s]

\* new TemplateStringPlaceholder(greedy, strings, ...placeholders): the
\* three fields are assigned, nothing is checked.
NewTemplateStringPlaceholder(g, strings, placeholders) ==
  TemplateStringPlaceholder(g, StringsOf(strings), placeholders)

\* _placeholder(nameOrStringsOrTest, ...testOrPlaceholders)
placeholder(nameOrStringsOrTest, testOrPlaceholders) ==
  IF maybeTypeGuard(nameOrStringsOrTest)
    THEN AnonymousPlaceholder(TestOf(nameOrStringsOrTest))
  ELSE IF isKey(nameOrStringsOrTest)
    THEN IF maybeTypeGuard(Index(Arr(testOrPlaceholders), 1))
           THEN RegularPlaceholder(nameOrStringsOrTest.name,
                                   TestOf(Index(Arr(testOrPlaceholders), 1)))
           ELSE Thrown
  ELSE IF isTemplateStringsArray(nameOrStringsOrTest)
    THEN IF isAbstractPlaceholders(testOrPlaceholders)
           THEN NewTemplateStringPlaceholder(FALSE, nameOrStringsOrTest,
                                             testOrPlaceholders)
           ELSE Thrown
  ELSE Thrown

\* greedy(strings, ...placeholders)
greedy(strings, placeholders) ==
  NewTemplateStringPlaceholder(TRUE, strings, placeholders)

StringsArgs ==
  {Arr(e) : e \in UNION {[1..k -> {Str(<<>>), Str(<<"-">>)}] : k \in 1..MaxStrings}}

PlaceholderArgs ==
  SeqsUpTo({RegularPlaceholder("x", "none"), RegularPlaceholder("y", "isString")},
           MaxPlaceholders)

TestArgs == {Undefined, Fn("isString")}

ConstructInit ==
  /\ pattern = Undefined
  /\ target \in {Str(<<>>), Str(<<"a">>), Str(<<"a", "-", "a">>), Str(<<"-", "-">>)}
  /\ result = Undefined
  /\ calls = <<>>
  /\ pc = "new"
  /\ heap = <<>>
  /\ history = <<>>

\* The caller builds a pattern: pattern holds what the factory or the
\* constructor returns, or the caller is left with the exception.
Constructed(made) ==
  /\ pc = "new"
  /\ IF made = Thrown
       THEN pc' = "rejected" /\ pattern' = pattern
       ELSE pc' = "call" /\ pattern' = made
  /\ UNCHANGED <<target, result, calls, heap, history>>

Construct ==
  \/ \E first \in TestArgs \cup {KeyArg("x")} \cup StringsArgs :
       \E rest \in PlaceholderArgs \cup {<<t>> : t \in TestArgs} :
         Constructed(placeholder(first, rest))
  \/ \E strings \in StringsArgs : \E rest \in PlaceholderArgs :
       Constructed(greedy(strings, rest))
  \/ \E g \in BOOLEAN : \E strings \in StringsArgs : \E rest \in PlaceholderArgs :
       Constructed(NewTemplateStringPlaceholder(g, strings, rest))

ConstructNext == Construct \/ Match

ConstructSpec == ConstructInit /\ [][ConstructNext]_vars

(***************************************************************************)
(* A caller passes a pattern and a target nested to some depth: each level *)
(* is an array of one element or an object with the one field a.           *)
(***************************************************************************)
Wrap(kind, v) ==
  IF kind = "array" THEN Arr(<<v>>) ELSE Obj("Object", 0, <<Entry("a", v)>>)

RECURSIVE Nested(_, _)
Nested(kinds, leaf) ==
  IF kinds = <<>> THEN leaf ELSE Wrap(Head(kinds), Nested(Tail(kinds), leaf))

Nestings == SeqsUpTo({"array", "object"}, MaxDepth)

DeepPatterns ==
  {Nested(kinds, leaf) : kinds \in Nestings,
                         leaf \in {RegularPlaceholder("x", "isNumber"), Num(1)}}

DeepValues == {Nested(kinds, leaf) : kinds \in Nestings, leaf \in {Num(1), Num(2)}}

DeepInit ==
  /\ pattern \in DeepPatterns
  /\ target \in DeepValues
  /\ result = Undefined
  /\ calls = <<>>
  /\ pc = "call"
  /\ heap = <<>>
  /\ history = <<>>

DeepSpec == DeepInit /\ [][Next]_vars

(***************************************************************************)
(* Properties.                                                             *)
(***************************************************************************)
Returned == pc = "returned"

\* What a call of match on an empty heap gives its caller, and the tests it
\* invokes.
Outcome(p, v) ==
  LET r == match(p, v, <<>>) IN [ret |-> Deref(r), calls |-> r.calls]

Success == Returned /\ result.t = "captures"

Failure == Returned /\ result = Undefined

\* The test of a placeholder is absent or accepts v.
Accepts(p, v) ==
  \/ p.test = "none"
  \/ p.test = "isString" /\ v.t = "string"
  \/ p.test = "isNumber" /\ v.t = "number"
  \/ p.test = "isA" /\ v = Str(<<"a">>)

IsScalar(v) ==
  v.t \in {"string", "number", "boolean", "null", "undefined", "symbol"}

IsNaN(v) == v.t = "number" /\ "nan" \in DOMAIN v

\* C1: a RegularPlaceholder named k matched against v returns exactly the
\* one-entry map {k: v} when it has no test or its test accepts v, and
\* undefined when its test rejects v.
C1_NamedPlaceholder ==
  (Returned /\ pattern.t = "RegularPlaceholder") =>
    IF Accepts(pattern, target)
      THEN /\ result.t = "captures"
           /\ DOMAIN result.m = {pattern.name}
           /\ result.m[pattern.name] = target
      ELSE result = Undefined

C1_Witness ==
  /\ Success
  /\ pattern = RegularPlaceholder("x", "isString")
  /\ target = Str(<<"a">>)
  /\ result.m = [k \in {"x"} |-> Str(<<"a">>)]

\* C2: an AnonymousPlaceholder matched against v returns the empty capture
\* map iff it has no test or its test accepts v, and undefined otherwise; in
\* a Sequence it contributes no key to the result.
C2_AnonymousPlaceholder ==
  /\ (Returned /\ pattern.t = "AnonymousPlaceholder") =>
       IF Accepts(pattern, target)
         THEN result = Captures(EmptyMap) ELSE result = Undefined
  /\ (Success /\ pattern.t = "array"
        /\ \A i \in 1..Len(pattern.e) : pattern.e[i].t = "AnonymousPlaceholder")
       => DOMAIN result.m = {}

C2_Witness ==
  /\ Failure
  /\ pattern = AnonymousPlaceholder("isString")
  /\ target = Num(1)
  /\ calls = <<[test |-> "isString", arg |-> Num(1)]>>

\* C3 as stated: a scalar pattern p matches v with the empty capture map iff
\* p and v are strictly equal, match(v, v) returns {} for every scalar v, and
\* null and undefined never match each other.
C3_LiteralAsStated ==
  (Returned /\ IsScalar(pattern)) =>
    /\ result = (IF pattern = target /\ ~IsNaN(pattern)
                   THEN Captures(EmptyMap) ELSE Undefined)
    /\ (pattern = target => result = Captures(EmptyMap))
    /\ ({pattern, target} = {Null, Undefined} => result = Undefined)

\* C3 (amended): a scalar pattern p matches v with the empty capture map iff
\* p and v are strictly equal; match(v, v) returns {} for every scalar v
\* other than NaN, which is not strictly equal to itself; null and undefined
\* never match each other.
C3_Literal ==
  (Returned /\ IsScalar(pattern)) =>
    /\ result = (IF pattern = target /\ ~IsNaN(pattern)
                   THEN Captures(EmptyMap) ELSE Undefined)
    /\ ((pattern = target /\ ~IsNaN(pattern)) => result = Captures(EmptyMap))
    /\ ({pattern, target} = {Null, Undefined} => result = Undefined)

C3_Witness ==
  /\ Failure
  /\ pattern = Null
  /\ target = Undefined

\* C4: match([P], [v1, v2]) returns what match(P, v1) returns, and invokes
\* the tests match(P, v1) invokes: v2 is neither inspected nor captured.
C4_PrefixRule ==
  (Returned /\ pattern.t = "array" /\ Len(pattern.e) = 1
     /\ target.t = "array" /\ Len(target.e) = 2) =>
    /\ result = Outcome(pattern.e[1], target.e[1]).ret
    /\ calls = Outcome(pattern.e[1], target.e[1]).calls
    /\ \A i \in 1..Len(calls) : calls[i].arg = target.e[1]

C4_Witness ==
  /\ Success
  /\ pattern = Arr(<<RegularPlaceholder("x", "isNumber")>>)
  /\ target = Arr(<<Num(1), Arr(<<Str(<<"a">>)>>)>>)
  /\ result.m = [k \in {"x"} |-> Num(1)]

\* C5: a Sequence pattern fails against every value that is not a Sequence
\* and against every Sequence shorter than the pattern, and in both cases no
\* test of an element has been invoked.
C5_SequenceGuard ==
  (Returned /\ pattern.t = "array"
     /\ (target.t # "array" \/ Len(target.e) < Len(pattern.e))) =>
    /\ result = Undefined
    /\ calls = <<>>

C5_Witness ==
  /\ Failure
  /\ pattern = Arr(<<RegularPlaceholder("x", "isNumber"),
                     RegularPlaceholder("y", "none")>>)
  /\ target = Arr(<<Num(1)>>)
  /\ calls = <<>>

\* The plain record holding the own fields of o whose keys are in keys.
RECURSIVE RestrictFields(_, _)
RestrictFields(own, keys) ==
  IF own = <<>> THEN <<>>
  ELSE (IF Head(own).k \in keys THEN <<Head(own)>> ELSE <<>>)
       \o RestrictFields(Tail(own), keys)

\* C6: match({a: P}, {a: v, b: w}) returns what match({a: P}, {a: v})
\* returns, and so for every plain record pattern: the keys of the target
\* that the pattern does not name change nothing and are never captured.
C6_SubsetRule ==
  (Returned /\ IsPlainObject(pattern) /\ target.t = "object"
     /\ target.cls = "Object") =>
    LET reduced == Obj("Object", 0, RestrictFields(target.own, OwnKeys(pattern)))
    IN /\ result = Outcome(pattern, reduced).ret
       /\ calls = Outcome(pattern, reduced).calls
       /\ (Success /\ OwnKeys(pattern) = {"a"} /\ OwnKeys(target) = {"a", "b"}) =>
            \A k \in DOMAIN result.m : result.m[k] = Get(target, "a")

C6_Witness ==
  /\ Success
  /\ pattern = Obj("Object", 0, <<Entry("a", RegularPlaceholder("x", "none"))>>)
  /\ target = Obj("Object", 0, <<Entry("a", Num(1)), Entry("b", Num(2))>>)
  /\ result.m = [k \in {"x"} |-> Num(1)]

\* The key is neither an own property of o nor one o inherits.
Absent(key, o) == key \notin OwnKeys(o) /\ key \notin InheritedKeys

\* C7: a plain record pattern fails whenever one of its declared keys is
\* absent from the target, whatever the sub-pattern under that key; a key
\* present with the value undefined is matched against its sub-pattern.
C7_MissingKeyRule ==
  (Returned /\ IsPlainObject(pattern) /\ target.t = "object") =>
    /\ (\E k \in OwnKeys(pattern) : Absent(k, target)) => result = Undefined
    /\ (Len(pattern.own) = 1 /\ pattern.own[1].k \in OwnKeys(target)
          /\ Get(target, pattern.own[1].k) = Undefined) =>
         result = Outcome(pattern.own[1].v, Undefined).ret

C9_RecordGuard ==
  (Returned /\ IsPlainObject(pattern)
     /\ (IsScalar(target) \/ target.t = "array")) =>
    /\ result = Undefined
    /\ calls = <<>>

C9_Witness ==
  /\ Failure
  /\ pattern = Obj("Object", 0, <<>>)
  /\ target = Arr(<<>>)

\* C10: when a placeholder name occurs twice in a pattern, a successful
\* match maps the name to the value captured by the occurrence visited
\* last: the higher index in a Sequence, the later gap in a template, and
\* an occurrence nested in a later sibling overrides an earlier sibling.
C10_LastWriteWins ==
  Success =>
    /\ (pattern.t = "array" /\ Len(pattern.e) >= 2
          /\ \A i \in 1..Len(pattern.e) :
               pattern.e[i].t = "RegularPlaceholder" /\ pattern.e[i].name = "x")
         => result.m["x"] = target.e[Len(pattern.e)]
    /\ (pattern.t = "TemplateStringPlaceholder" /\ Len(pattern.placeholders) = 2
          /\ pattern.strings = <<<<>>, <<"-">>, <<>>>>
          /\ \A i \in 1..2 :
               pattern.placeholders[i].t = "RegularPlaceholder"
                 /\ pattern.placeholders[i].name = "x")
         => \E g \in 0..Len(target.s) :
              /\ target.s = SubSeq(target.s, 1, g) \o <<"-">> \o result.m["x"].s
              /\ (pattern.greedy => "-" \notin SeqRange(result.m["x"].s))
              /\ (~pattern.greedy => "-" \notin SeqRange(SubSeq(target.s, 1, g)))
    /\ (pattern.t = "array" /\ Len(pattern.e) = 2
          /\ pattern.e[1] = RegularPlaceholder("x", "none")
          /\ pattern.e[2] = Arr(<<RegularPlaceholder("x", "none")>>))
         => result.m["x"] = target.e[2].e[1]
    /\ (pattern.t = "array" /\ Len(pattern.e) = 2
          /\ pattern.e[1] = Arr(<<RegularPlaceholder("x", "none")>>)
          /\ pattern.e[2].t = "RegularPlaceholder" /\ pattern.e[2].name = "x")
         => result.m["x"] = target.e[2]

C10_Witness ==
  /\ Success
  /\ pattern = Arr(<<RegularPlaceholder("x", "none"),
                     RegularPlaceholder("x", "isNumber")>>)
  /\ target = Arr(<<Num(1), Num(2)>>)
  /\ result.m = [k \in {"x"} |-> Num(2)]

\* Every sub-pattern of p, at every depth, is satisfied by the part of v it
\* is matched against: a placeholder by its test, a literal by strict
\* equality, the elements of a Sequence by the elements at their indices, the
\* declared fields of a record by the values under their keys, the
\* placeholders of a template by the gaps.
RECURSIVE SubPatternsMatch(_, _)
SubPatternsMatch(p, v) ==
  IF p.t \in {"AnonymousPlaceholder", "RegularPlaceholder"} THEN Accepts(p, v)
  ELSE IF p.t = "TemplateStringPlaceholder"
    THEN /\ v.t = "string"
         /\ LET m == RegExpMatch(p.strings, p.greedy, v.s) IN
              /\ m.ok
              /\ \A i \in 1..Len(p.placeholders) :
                   SubPatternsMatch(p.placeholders[i], Group(m, i))
  ELSE IF p.t = "array"
    THEN /\ v.t = "array"
         /\ Len(p.e) <= Len(v.e)
         /\ \A i \in 1..Len(p.e) : SubPatternsMatch(p.e[i], v.e[i])
  ELSE IF p.t = "object" /\ p.cls = "Object"
    THEN /\ v.t = "object"
         /\ \A i \in 1..Len(p.own) :
              /\ ~Absent(p.own[i].k, v)
              /\ SubPatternsMatch(p.own[i].v, Get(v, p.own[i].k))
  ELSE p = v /\ ~IsNaN(p)

\* C11: if a sub-pattern at any nesting depth fails, match returns undefined
\* and no partial capture map; a returned capture map implies that every
\* sub-pattern of the pattern matched.
C11_AllOrNothing ==
  (Returned /\ ~SubPatternsMatch(pattern, target)) => result = Undefined

C11_KeyPresentCase ==
  /\ Success
  /\ pattern = Obj("Object", 0, <<Entry("@s", Num(1))>>)
  /\ target = Obj("Object", 0, <<Entry("@s", Num(2))>>)

\* C12: a template fails against every target that is not a string (number,
\* boolean, null, undefined, Sequence, record) and none of its placeholders'
\* tests is invoked.
C12_TemplateGuard ==
  (Returned /\ pattern.t = "TemplateStringPlaceholder" /\ target.t # "string") =>
    /\ result = Undefined
    /\ calls = <<>>

C12_Witness ==
  /\ Failure
  /\ pattern = TemplateStringPlaceholder(FALSE, <<<<"a">>, <<>>>>,
                                         <<RegularPlaceholder("x", "isString")>>)
  /\ target = Arr(<<Str(<<"a">>)>>)
  /\ calls = <<>>

(***************************************************************************)
(* Properties of templates, checked under TplSpec.                         *)
(***************************************************************************)
StartsWith(s, l) == Len(l) <= Len(s) /\ SubSeq(s, 1, Len(l)) = l

EndsWith(s, l) == Len(l) <= Len(s) /\ SubSeq(s, Len(s) - Len(l) + 1, Len(s)) = l

IsTemplate(p, n) ==
  /\ p.t = "TemplateStringPlaceholder"
  /\ Len(p.placeholders) = n
  /\ Len(p.strings) = n + 1

Unconstrained(p) ==
  \A i \in 1..Len(p.placeholders) : p.placeholders[i].test = "none"

\* Every placeholder of p accepts every string.
AcceptsStrings(p) ==
  \A i \in 1..Len(p.placeholders) : p.placeholders[i].test \in {"none", "isString"}

\* C13: a template with literals [L0, L1] and one unconstrained placeholder
\* named k matches S iff S starts with L0, ends with L1 and is at least
\* |L0| + |L1| long, and then returns {k: g}, g the part of S between that
\* prefix and that suffix.
C13_SingleGap ==
  (Returned /\ IsTemplate(pattern, 1) /\ Unconstrained(pattern)) =>
    LET l0 == pattern.strings[1]
        l1 == pattern.strings[2]
        s == target.s
    IN IF StartsWith(s, l0) /\ EndsWith(s, l1) /\ Len(s) >= Len(l0) + Len(l1)
         THEN result = Captures([k \in {pattern.placeholders[1].name} |->
                          Str(SubSeq(s, Len(l0) + 1, Len(s) - Len(l1)))])
         ELSE result = Undefined

\* C14: a template with the single literal L and no placeholder returns the
\* empty capture map against the string equal to L and undefined against
\* every other string.
C14_PureLiteral ==
  (Returned /\ IsTemplate(pattern, 0)) =>
    result = (IF target.s = pattern.strings[1]
                THEN Captures(EmptyMap) ELSE Undefined)

RECURSIVE Fits(_, _, _, _, _)
Fits(strings, gaps, s, i, pos) ==
  LET l == strings[i]
      end == pos + Len(l)
  IN /\ end <= Len(s)
     /\ SubSeq(s, pos + 1, end) = l
     /\ IF i = Len(strings) THEN end = Len(s)
        ELSE Fits(strings, gaps, s, i + 1, end + gaps[i])

\* The ways to write s as L0 g1 L1 ... gn Ln, each given by its gap lengths.
Decompositions(strings, s) ==
  {gaps \in [1..(Len(strings) - 1) -> 0..Len(s)] : Fits(strings, gaps, s, 1, 0)}

RECURSIVE GapStart(_, _, _)
GapStart(strings, gaps, i) ==
  IF i = 1 THEN Len(strings[1])
  ELSE GapStart(strings, gaps, i - 1) + gaps[i - 1] + Len(strings[i])

Gap(strings, gaps, s, i) ==
  LET start == GapStart(strings, gaps, i)
  IN Str(SubSeq(s, start + 1, start + gaps[i]))

LexLess(a, b) ==
  \E i \in DOMAIN a :
    /\ a[i] < b[i]
    /\ \A j \in 1..(i - 1) : a[j] = b[j]

Shortest(D) == CHOOSE g \in D : \A h \in D \ {g} : LexLess(g, h)

Longest(D) == CHOOSE g \in D : \A h \in D \ {g} : LexLess(h, g)

Selected(p, s) ==
  IF p.greedy THEN Longest(Decompositions(p.strings, s))
  ELSE Shortest(Decompositions(p.strings, s))

GapCaptures(p, gaps, s) ==
  LET n == Len(p.placeholders)
      last(k) == CHOOSE i \in 1..n :
                   /\ p.placeholders[i].name = k
                   /\ \A j \in (i + 1)..n : p.placeholders[j].name # k
  IN Captures([k \in {p.placeholders[i].name : i \in 1..n} |->
        Gap(p.strings, gaps, s, last(k))])

GapCalls(p, gaps, s) ==
  LET tested == SelectSeq([i \in 1..Len(p.placeholders) |-> i],
                          LAMBDA i : p.placeholders[i].test # "none")
  IN [j \in 1..Len(tested) |->
        [test |-> p.placeholders[tested[j]].test,
         arg |-> Gap(p.strings, gaps, s, tested[j])]]

\* C15: when the target has a decomposition L0 g1 L1 ... gn Ln, a non-greedy
\* template selects the one whose gaps are shortest taken left to right and a
\* greedy template the one whose gaps are longest taken left to right; the
\* type guards are called on the selected gaps and the selected gaps are
\* what is captured.
C15_GapPolicy ==
  (/\ Returned
   /\ \E n \in 1..3 : IsTemplate(pattern, n)
   /\ AcceptsStrings(pattern)
   /\ Decompositions(pattern.strings, target.s) # {}) =>
    LET gaps == Selected(pattern, target.s)
    IN /\ result = GapCaptures(pattern, gaps, target.s)
       /\ calls = GapCalls(pattern, gaps, target.s)

Occurrences(l, s) ==
  {i \in 0..(Len(s) - Len(l)) : SubSeq(s, i + 1, i + Len(l)) = l}

Flipped(p) == TemplateStringPlaceholder(~p.greedy, p.strings, p.placeholders)

\* r is a capture map whose name and age rebuild the input.
Consistent(r, s) ==
  /\ r # Undefined
  /\ DOMAIN r.m = {"name", "age"}
  /\ r.m["name"].t = "string"
  /\ r.m["age"].t = "string"
  /\ r.m["name"].s \o IS \o r.m["age"].s \o YearsOld = s

C16_OverlapCase ==
  /\ Success
  /\ pattern \in AgeTemplates
  /\ target = Str(<<"a">> \o IS \o <<"a", " ", "i", "s">> \o YearsOld)
  /\ result = Outcome(Flipped(pattern), target).ret

IsOpaque(v) == v.t = "object" /\ v.cls # "Object"

\* C17: a pattern that is an instance of a user-defined class matches a target
\* iff the target is that very same instance, and then with the empty capture
\* map: an independently constructed instance with equal fields does not
\* match, and no field of the pattern is matched or captured.
C17_OpaqueIdentity ==
  (Returned /\ IsOpaque(pattern)) =>
    /\ result = (IF target.t = "object" /\ target.id = pattern.id
                   THEN Captures(EmptyMap) ELSE Undefined)
    /\ calls = <<>>

C17_Witness ==
  /\ Failure
  /\ pattern = Obj("User", 1, <<Entry("a", Num(1))>>)
  /\ target = Obj("User", 2, <<Entry("a", Num(1))>>)

(***************************************************************************)
(* Faults of a test, checked under FaultSpec.                              *)
(***************************************************************************)
\* C18: when a test invoked during a call of match throws, at any nesting
\* depth, the call ends by throwing: it returns neither undefined nor a
\* capture map, and no test is invoked after the one that threw.
C18_PredicateFault ==
  \A i \in 1..Len(calls) :
    (pc # "call" /\ Raises(calls[i].test, calls[i].arg)) =>
      /\ pc = "thrown"
      /\ result = Undefined
      /\ history[Len(history)].thrown
      /\ i = Len(calls)

C18_Witness ==
  /\ pc = "thrown"
  /\ pattern = Arr(<<Obj("Object", 0,
       <<Entry("a", TemplateStringPlaceholder(FALSE, <<<<"a">>, <<>>>>,
                      <<RegularPlaceholder("x", "ensureNumber")>>))>>)>>)
  /\ target = Arr(<<Obj("Object", 0, <<Entry("a", Str(<<"a", "a">>))>>)>>)
  /\ calls = <<[test |-> "ensureNumber", arg |-> Str(<<"a">>)]>>

C20_Decomposable ==
  (/\ Returned
   /\ \E n \in 1..3 : IsTemplate(pattern, n)
   /\ Unconstrained(pattern)) =>
    (result # Undefined <=> Decompositions(pattern.strings, target.s) # {})

HasSpecial(p) ==
  \E i \in 1..Len(p.strings) : \E j \in 1..Len(p.strings[i]) :
    p.strings[i][j] \in RegExpSpecial

\* C21: a literal fragment that holds a character which is control syntax of
\* regular expressions matches exactly that character sequence in the target
\* and adds no capture group: the match succeeds iff the target is the
\* literals, taken as plain text, with one gap between each two, and gap i is
\* what placeholder i captures.
C21_LiteralFragments ==
  (Returned /\ pattern.t = "TemplateStringPlaceholder" /\ HasSpecial(pattern)) =>
    IF Decompositions(pattern.strings, target.s) = {}
      THEN result = Undefined
      ELSE result = GapCaptures(pattern, Selected(pattern, target.s), target.s)

C21_Witness ==
  /\ Success
  /\ pattern = TemplateStringPlaceholder(FALSE, <<<<>>, <<"a", ".">>, <<>>>>,
       <<RegularPlaceholder("x", "none"), RegularPlaceholder("y", "none")>>)
  /\ target = Str(<<"a", "a", ".", "a">>)
  /\ result = Captures([k \in {"x", "y"} |-> Str(<<"a">>)])

\* C22: when the target of a template has no decomposition, match returns
\* undefined and has invoked no type guard of any placeholder.
C22_DecomposeFirst ==
  (/\ Returned
   /\ pattern.t = "TemplateStringPlaceholder"
   /\ Decompositions(pattern.strings, target.s) = {}) =>
    /\ result = Undefined
    /\ calls = <<>>

C22_Witness ==
  /\ Failure
  /\ pattern = TemplateStringPlaceholder(FALSE, <<<<"a">>, <<"-">>>>,
       <<RegularPlaceholder("x", "isString")>>)
  /\ target = Str(<<"a", "a">>)
  /\ calls = <<>>

\* Some placeholder of p rejects the gap the decomposition gaps gives it.
Rejected(p, gaps, s) ==
  \E i \in 1..Len(p.placeholders) :
    ~Accepts(p.placeholders[i], Gap(p.strings, gaps, s, i))

\* C23: when a placeholder rejects its gap of the decomposition selected by
\* the greedy or non-greedy policy, match returns undefined, also when
\* another decomposition of the target would satisfy every placeholder; no
\* placeholder is tested twice.
C23_NoBacktracking ==
  (/\ Returned
   /\ pattern.t = "TemplateStringPlaceholder"
   /\ Decompositions(pattern.strings, target.s) # {}
   /\ Rejected(pattern, Selected(pattern, target.s), target.s)) =>
    /\ result = Undefined
    /\ Len(calls) <= Len(pattern.placeholders)

C23_Witness ==
  /\ Failure
  /\ pattern = TemplateStringPlaceholder(TRUE, <<<<>>, <<"-">>, <<>>>>,
       <<RegularPlaceholder("x", "isA"), RegularPlaceholder("y", "none")>>)
  /\ target = Str(<<"a", "-", "a", "-">>)
  /\ calls = <<[test |-> "isA", arg |-> Str(<<"a", "-", "a">>)]>>
  /\ \E gaps \in Decompositions(pattern.strings, target.s) :
       ~Rejected(pattern, gaps, target.s)

\* p is a record pattern of two fields that capture under the same name, and
\* v has both keys.
TwoFieldsOneName(p, v) ==
  /\ p.t = "object"
  /\ p.cls = "Object"
  /\ Len(p.own) = 2
  /\ \A i \in 1..2 : p.own[i].v = RegularPlaceholder("x", "none")
  /\ v.t = "object"
  /\ \A i \in 1..2 : p.own[i].k \in OwnKeys(v)

\* C24: a record pattern merges the captures of its fields in the order the
\* fields are declared, for text, integer-like and symbol keys: when two
\* fields capture under the same name, the result holds the value captured
\* by the field declared later.
C24_DeclarationOrder ==
  (Returned /\ TwoFieldsOneName(pattern, target)) =>
    result = Captures([k \in {"x"} |-> Get(target, pattern.own[2].k)])

IsPlaceholder(p) == p.t \in {"AnonymousPlaceholder", "RegularPlaceholder"}

\* The sub-patterns of a Sequence or record pattern in the order they are
\* declared, each with the part of the target it is matched against.
SubPatterns(p, v) ==
  IF p.t = "array"
    THEN [i \in 1..Len(p.e) |->
            [pat |-> p.e[i], present |-> TRUE, val |-> Index(v, i)]]
    ELSE [i \in 1..Len(p.own) |->
            [pat |-> p.own[i].v, present |-> KeyIn(p.own[i].k, v),
             val |-> Get(v, p.own[i].k)]]

IsFlat(p) ==
  /\ \/ p.t = "array"
     \/ p.t = "object" /\ p.cls = "Object"
  /\ LET subs == IF p.t = "array" THEN p.e ELSE [i \in 1..Len(p.own) |-> p.own[i].v]
     IN \A i \in 1..Len(subs) : IsPlaceholder(subs[i]) \/ IsScalar(subs[i])

SubSucceeds(e) ==
  /\ e.present
  /\ IF IsPlaceholder(e.pat) THEN Accepts(e.pat, e.val)
     ELSE e.pat = e.val /\ ~IsNaN(e.pat)

SubCalls(e) ==
  IF e.present /\ IsPlaceholder(e.pat) /\ e.pat.test # "none"
    THEN <<[test |-> e.pat.test, arg |-> e.val]>>
    ELSE <<>>

\* The tests invoked when the sub-patterns are evaluated in the order
\* given, each test once, up to and including the first that fails.
RECURSIVE CallsInOrder(_, _)
CallsInOrder(subs, i) ==
  IF i > Len(subs) THEN <<>>
  ELSE IF SubSucceeds(subs[i]) THEN SubCalls(subs[i]) \o CallsInOrder(subs, i + 1)
  ELSE SubCalls(subs[i])

\* C25: the sub-patterns of a Sequence are evaluated in ascending index
\* order and those of a record pattern in the order the fields are declared;
\* each test is invoked at most once, and after the first sub-pattern that
\* fails no test of a later sub-pattern is invoked.
C25_EvaluationOrder ==
  (/\ Returned
   /\ IsFlat(pattern)
   /\ IF pattern.t = "array"
        THEN target.t = "array" /\ Len(pattern.e) <= Len(target.e)
        ELSE target.t = "object") =>
    calls = CallsInOrder(SubPatterns(pattern, target), 1)

(***************************************************************************)
(* Construction, checked under ConstructSpec.                              *)
(***************************************************************************)
\* C26: every template that has been constructed, and every template match
\* is called with, has one literal more than it has placeholders.
C26_CountInvariant ==
  (pc \in {"call", "returned", "thrown"} /\ pattern.t = "TemplateStringPlaceholder") =>
    Len(pattern.strings) = Len(pattern.placeholders) + 1

\* A template with one literal and two placeholders is constructed and
\* matched: the placeholders capture undefined.
C26_MismatchMatched ==
  /\ Success
  /\ pattern = TemplateStringPlaceholder(FALSE, <<<<>>>>,
       <<RegularPlaceholder("x", "none"), RegularPlaceholder("x", "none")>>)
  /\ target = Str(<<>>)
  /\ result = Captures([k \in {"x"} |-> Undefined])

(***************************************************************************)
(* Nesting, checked under DeepSpec.                                        *)
(***************************************************************************)
RECURSIVE Depth(_)
Depth(p) ==
  IF p.t = "array" /\ Len(p.e) = 1 THEN 1 + Depth(p.e[1])
  ELSE IF p.t = "object" /\ Len(p.own) = 1 THEN 1 + Depth(p.own[1].v)
  ELSE 0

\* C27: match has a recursion budget, and a call on a pattern nested deeper
\* than the budget ends with an outcome of its own, neither a returned value
\* nor the fault of a test: with any budget below MaxDepth, that is the
\* outcome of every call on a pattern nested MaxDepth deep.
C27_RecursionBudget ==
  (pc # "call" /\ Depth(pattern) >= MaxDepth) => pc = "exceeded"

\* A pattern nested MaxDepth deep is matched down to its placeholder.
C27_DeepMatched ==
  /\ Success
  /\ Depth(pattern) = MaxDepth
  /\ result = Captures([k \in {"x"} |-> Num(2)])
  /\ calls = <<[test |-> "isNumber", arg |-> Num(2)]>>

(***************************************************************************)
(* The keys of the result.                                                 *)
(***************************************************************************)
RECURSIVE NamesIn(_)
NamesIn(p) ==
  IF p.t = "RegularPlaceholder" THEN {p.name}
  ELSE IF p.t = "TemplateStringPlaceholder"
    THEN UNION {NamesIn(p.placeholders[i]) : i \in 1..Len(p.placeholders)}
  ELSE IF p.t = "array" THEN UNION {NamesIn(p.e[i]) : i \in 1..Len(p.e)}
  ELSE IF p.t = "object" /\ p.cls = "Object"
    THEN UNION {NamesIn(p.own[i].v) : i \in 1..Len(p.own)}
  ELSE {}

\* C28: on every successful match the keys of the returned capture map are
\* exactly the names of the named placeholders that occur in the pattern,
\* through Sequences, record patterns and templates.
C28_KeySet ==
  Success => DOMAIN result.m = NamesIn(pattern)

====
